---- MODULE Spec2Model ----
(***************************************************************************)
(* bubble_grader: calibration-bar tracing, grid construction and the       *)
(* bubble decision engine of src/bubble_grader.py.                         *)
(*                                                                         *)
(* Units.  A darkness value (the result of darkness(), 0..1 in the code)   *)
(* is an integer number of hundredths.   A read_bubble sample is the SUM   *)
(* of the window's pixel darknesses (the code's mean times the window's    *)
(* pixel count); every comparison of the code is rewritten over these sums *)
(* without loss (both sides multiplied by the same positive count).        *)
(* Fractions of the image size (BAR_SPACING, BUBBLE_RADIUS_X, ...) are     *)
(* kept as numerator over a stated denominator.  The darkness of white     *)
(* paper (0.0067, below every threshold) is taken as 0.                    *)
(*                                                                         *)
(* Pillow.  getpixel wraps a negative coordinate once (x + width) and      *)
(* raises IndexError outside the image; ImageDraw.rectangle with fill      *)
(* orders its two corners and fills both end points inclusively.           *)
(* numpy.  A float64 division by zero does not raise: it yields inf, or    *)
(* nan for 0/0, and every ordered comparison with nan is False.            *)
(***************************************************************************)
EXTENDS Integers, Sequences, FiniteSets

VARIABLES pc, scan, bar_loc, cur, start, midpoints, calib_bars_y, calib_bars_x,
          x_grid, y_grid, reported,
          num_questions, char_num, column, row, uniqueid, form,
          answers_list, printed, saved_as, last

calVars == <<bar_loc, cur, start, midpoints, calib_bars_y, calib_bars_x, reported>>
gridVars == <<x_grid, y_grid>>
fieldVars == <<num_questions, char_num, column, row, uniqueid, form,
               answers_list, printed, saved_as, last>>
vars == <<pc, scan, calVars, gridVars, fieldVars>>

(***************************************************************************)
(* Program constants (src/bubble_grader.py:20-79).                         *)
(***************************************************************************)
NUM_CALIB_BARS == 63
Q_PER_COL == 20
\* BAR_HALFWIDTH_REL = 0.0085, in 1/10000 of the width.
BAR_HALFWIDTH_REL == 85
\* BAR_SPACING = 0.014 and BAR_MIN_HEIGHT = 0.002, in 1/1000 of the height.
BAR_SPACING == 14
BAR_MIN_HEIGHT == 2
\* Darkness thresholds, in hundredths.
THRESHOLD == 30
THRESHOLD_CALIB == 10
FILLED_THRESHOLD == 27
FILLED_THRESHOLD_UNIQUEID == 27
UNIQUEID_WRITING_THRESHOLD == 1
TOLERANCE == 3
UNIQUEID_TOLERANCE == 1
\* BUBBLE_RADIUS_X = 0.0069, BUBBLE_RADIUS_Y = 0.0054, in 1/10000 of the size.
BUBBLE_RADIUS_X == 69
BUBBLE_RADIUS_Y == 54
TRACE_Y_WIDTH == 3
TRACE_X_WIDTH == 6
UNIQUEID_X == 36
UNIQUEID_Y == 7
FORM_X == 37
FORM_Y == 46
\* darkness(MARK_COLOR): the red channel of rgb(0,120,255) is 0, so the
\* sigmoid gives 1/(1+exp(-15)) = 0.9999997, 100 hundredths.
MARK_COLOR == 100
\* Number of columns of the x grid (range(44) in calibrate).
GRID_COLUMNS == 44
\* Number of bubbles of one identifier character and of the form number.
UNIQUEID_CHOICES == 36
UNIQUEID_LEN == 8
\* randint(0, 99) of the placeholder identifier.
RANDINT_MAX == 99

(***************************************************************************)
(* Arithmetic of the Python code.                                          *)
(***************************************************************************)
\* A list comprehension, evaluated once into a list.
List(f) == f \o <<>>

RECURSIVE SumSeq(_)
SumSeq(s) == IF s = <<>> THEN 0 ELSE Head(s) + SumSeq(Tail(s))

\* int(n / 2) for an integer n: true division, then truncation toward zero.
IntHalf(n) == IF n >= 0 THEN n \div 2 ELSE -((-n) \div 2)

\* round(n / d), d > 0: Python 3 rounds a tie to the even neighbour.
Round(n, d) ==
    LET q == n \div d
        r == n % d
    IN  IF 2 * r < d THEN q
        ELSE IF 2 * r > d THEN q + 1
        ELSE IF q % 2 = 0 THEN q ELSE q + 1

\* int(f * size) for a non-negative fraction f = n / d.
IntFrac(n, d, size) == (n * size) \div d

(***************************************************************************)
(* The image.  scan.size is (width, height); scan.ink is the set of        *)
(* printed or pencilled rectangles: <<x0, y0, x1, y1, d>> of darkness d,   *)
(* or <<x0, y0, x1, y1, d, step, period>>, a panel of printed bubbles      *)
(* whose darkness d + step * k (k in 0..3) changes every `period` pixels;  *)
(* scan.paper is the background darkness; scan.marks is the set of         *)
(* rectangles <<x0, y0, x1, y1>> ImageDraw has filled with MARK_COLOR.     *)
(***************************************************************************)
Width(img) == img.size[1]
Height(img) == img.size[2]

InRect(r, x, y) == r[1] <= x /\ x <= r[3] /\ r[2] <= y /\ y <= r[4]

\* Image.getpixel: a negative coordinate is taken from the far edge.
Wrap(c, size) == IF c < 0 THEN c + size ELSE c

\* Whether getpixel((x, y)) returns (otherwise it raises IndexError).
Readable(img, x, y) ==
    /\ Wrap(x, Width(img)) \in 0..(Width(img) - 1)
    /\ Wrap(y, Height(img)) \in 0..(Height(img) - 1)

Max(S) == CHOOSE m \in S : \A n \in S : n <= m
Min(S) == CHOOSE m \in S : \A n \in S : m <= n

\* The darkness of ink rectangle r at one of its pixels.
InkAt(r, px, py) ==
    IF Len(r) = 5 THEN r[5]
    ELSE r[5] + r[6] * (((px \div r[7]) + (py \div r[7])) % 4)

\* Every darkness a pixel of the image can have.
InkLevels(img) ==
    {img.paper, MARK_COLOR}
    \cup {r[5] : r \in {q \in img.ink : Len(q) = 5}}
    \cup {r[5] + r[6] * k : r \in {q \in img.ink : Len(q) > 5}, k \in 0..3}

\* darkness(img.getpixel((x, y))) in hundredths, for a readable pixel.
darkness(img, x, y) ==
    LET px == Wrap(x, Width(img))
        py == Wrap(y, Height(img))
        inks == {r \in img.ink : InRect(r, px, py)}
    IN  IF \E m \in img.marks : InRect(m, px, py) THEN MARK_COLOR
        ELSE IF inks = {} THEN img.paper
        ELSE Max({InkAt(r, px, py) : r \in inks})

\* ImageDraw.rectangle([x0, y0, x1, y1], fill=MARK_COLOR).
Rectangle(x0, y0, x1, y1) ==
    <<Min({x0, x1}), Min({y0, y1}), Max({x0, x1}), Max({y0, y1})>>

(***************************************************************************)
(* intensity_difference: the 2*TRACE_X_WIDTH (resp. 2*TRACE_Y_WIDTH)       *)
(* pixels read on each of the two lines, and I2 - I1 times that count.     *)
(***************************************************************************)
IDReadable(img, loc, direction) ==
    IF direction = "y"
    THEN \A j \in (-TRACE_X_WIDTH)..(TRACE_X_WIDTH - 1) :
            /\ Readable(img, loc[1] + j, loc[2])
            /\ Readable(img, loc[1] + j, loc[2] + 1)
    ELSE \A j \in (-TRACE_Y_WIDTH)..(TRACE_Y_WIDTH - 1) :
            /\ Readable(img, loc[1], loc[2] + j)
            /\ Readable(img, loc[1] + 1, loc[2] + j)

IDCount(direction) ==
    IF direction = "y" THEN 2 * TRACE_X_WIDTH ELSE 2 * TRACE_Y_WIDTH

intensity_difference(img, loc, direction) ==
    IF direction = "y"
    THEN SumSeq([k \in 1..(2 * TRACE_X_WIDTH) |->
                    darkness(img, loc[1] + k - 1 - TRACE_X_WIDTH, loc[2] + 1)])
       - SumSeq([k \in 1..(2 * TRACE_X_WIDTH) |->
                    darkness(img, loc[1] + k - 1 - TRACE_X_WIDTH, loc[2])])
    ELSE SumSeq([k \in 1..(2 * TRACE_Y_WIDTH) |->
                    darkness(img, loc[1] + 1, loc[2] + k - 1 - TRACE_Y_WIDTH)])
       - SumSeq([k \in 1..(2 * TRACE_Y_WIDTH) |->
                    darkness(img, loc[1], loc[2] + k - 1 - TRACE_Y_WIDTH)])

\* intensity_difference(...) > THRESHOLD: a leading edge.
LeadingEdge(img, loc, direction) ==
    intensity_difference(img, loc, direction) > THRESHOLD * IDCount(direction)

\* not (-intensity_difference(...) < THRESHOLD): a trailing edge.
TrailingEdge(img, loc, direction) ==
    ~(-intensity_difference(img, loc, direction) < THRESHOLD * IDCount(direction))

(***************************************************************************)
(* calibrate (lines 269-313), one action per iteration of its callees'     *)
(* loops.  pc is the position in the code; a raised exception is recorded  *)
(* as "<exception>:<line that raised>" and ends the run (nothing in the    *)
(* program catches it).                                                    *)
(***************************************************************************)
\* The longest bar list a trace may build in the model (a trace that walks
\* back behind its leading edge can append for ever).
MaxMidpoints == 66

RECURSIVE WeightedCount(_, _, _)
WeightedCount(img, xloc, levels) ==
    IF levels = {} THEN 0
    ELSE LET d == CHOOSE l \in levels : TRUE
         IN  d * Cardinality({yy \in 0..(Height(img) - 1) :
                                 darkness(img, xloc, yy) = d})
             + WeightedCount(img, xloc, levels \ {d})

\* sum_y(img, xloc) times the height: the total darkness of column xloc,
\* summed level by level.
sum_y(img, xloc) ==
    WeightedCount(img, xloc, InkLevels(img))

\* find_bars, first loop: while sum_y(img, x) < THRESHOLD_CALIB: x += 1.
FindBarsLight ==
    /\ pc = "find_bars"
    /\ IF ~Readable(scan, cur, 0)
       THEN /\ pc' = "IndexError:242"
            /\ UNCHANGED <<cur, start>>
       ELSE IF sum_y(scan, cur) < THRESHOLD_CALIB * Height(scan)
       THEN /\ cur' = cur + 1
            /\ UNCHANGED <<pc, start>>
       ELSE /\ start' = cur
            /\ pc' = "find_bars_end"
            /\ cur' = cur
    /\ UNCHANGED <<scan, bar_loc, midpoints, calib_bars_y, calib_bars_x,
                   reported, gridVars, fieldVars>>

\* find_bars, second loop: while sum_y(img, x) > THRESHOLD_CALIB: x += 1,
\* then the return of round((xmin + xmax) / 2) to calibrate (284) and the
\* start of trace_y_calib_bars (176-177).
FindBarsDark ==
    /\ pc = "find_bars_end"
    /\ IF ~Readable(scan, cur, 0)
       THEN /\ pc' = "IndexError:242"
            /\ UNCHANGED <<cur, bar_loc>>
       ELSE IF sum_y(scan, cur) > THRESHOLD_CALIB * Height(scan)
       THEN /\ cur' = cur + 1
            /\ UNCHANGED <<pc, bar_loc>>
       ELSE /\ bar_loc' = Round(start + cur, 2)
            /\ pc' = "trace_y"
            /\ cur' = 0
    /\ UNCHANGED <<scan, start, midpoints, calib_bars_y, calib_bars_x,
                   reported, gridVars, fieldVars>>

\* The jump "in front of" the bar of trace_y_calib_bars (182-185).
JumpY(img, yy) ==
    LET j == Round(BAR_SPACING * Height(img), 1000)
    IN  IF yy + j < Height(img) THEN yy + j ELSE Height(img)

\* The jump of trace_x_calib_bars (216): no clamp to the image.
JumpX(img, xx) == xx + Round(BAR_HALFWIDTH_REL * 3 * Width(img), 10000)

\* trace_y_calib_bars: one iteration of "while y < img.size[1] - 1", up to
\* the jump when a leading edge is found.
TraceYStep ==
    /\ pc = "trace_y"
    /\ cur < Height(scan) - 1
    /\ IF ~IDReadable(scan, <<bar_loc, cur>>, "y")
       THEN /\ pc' = "IndexError:179"
            /\ UNCHANGED <<cur, start>>
       ELSE IF LeadingEdge(scan, <<bar_loc, cur>>, "y")
       THEN /\ start' = cur
            /\ cur' = JumpY(scan, cur)
            /\ pc' = "walk_y"
       ELSE /\ cur' = cur + 1
            /\ UNCHANGED <<pc, start>>
    /\ UNCHANGED <<scan, bar_loc, midpoints, calib_bars_y, calib_bars_x,
                   reported, gridVars, fieldVars>>

\* trace_y_calib_bars: one iteration of the walk back (187-188) and, at
\* the trailing edge, the rest of the outer iteration (189-192).
WalkYStep ==
    /\ pc = "walk_y"
    /\ Len(midpoints) < MaxMidpoints
    /\ IF ~IDReadable(scan, <<bar_loc, cur>>, "y")
       THEN /\ pc' = "IndexError:187"
            /\ UNCHANGED <<cur, midpoints>>
       ELSE IF ~TrailingEdge(scan, <<bar_loc, cur>>, "y")
       THEN /\ cur' = cur - 1
            /\ UNCHANGED <<pc, midpoints>>
       ELSE LET y_start == start
                y_end == cur
            IN  /\ midpoints' =
                      IF (y_end - y_start) * 1000
                            > BAR_MIN_HEIGHT * Height(scan)
                      THEN Append(midpoints, IntHalf(y_start + y_end))
                      ELSE midpoints
                /\ cur' = y_end + 1
                /\ pc' = "trace_y"
    /\ UNCHANGED <<scan, bar_loc, start, calib_bars_y, calib_bars_x,
                   reported, gridVars, fieldVars>>

\* trace_y_calib_bars returns (196); calibrate line 289 reads
\* calib_bars_y[0] and starts trace_x_calib_bars (211-212).
TraceYReturn ==
    /\ pc = "trace_y"
    /\ cur >= Height(scan) - 1
    /\ calib_bars_y' = midpoints
    /\ IF midpoints = <<>>
       THEN /\ pc' = "IndexError:289"
            /\ UNCHANGED <<cur, midpoints>>
       ELSE /\ pc' = "trace_x"
            /\ cur' = 0
            /\ midpoints' = <<>>
    /\ UNCHANGED <<scan, bar_loc, start, calib_bars_x, reported, gridVars,
                   fieldVars>>

\* trace_x_calib_bars: one iteration of "while x < img.size[0] - 1", up to
\* the jump when a leading edge is found.
TraceXStep ==
    /\ pc = "trace_x"
    /\ cur < Width(scan) - 1
    /\ IF ~IDReadable(scan, <<cur, calib_bars_y[1]>>, "x")
       THEN /\ pc' = "IndexError:214"
            /\ UNCHANGED <<cur, start>>
       ELSE IF LeadingEdge(scan, <<cur, calib_bars_y[1]>>, "x")
       THEN /\ start' = cur
            /\ cur' = JumpX(scan, cur)
            /\ pc' = "walk_x"
       ELSE /\ cur' = cur + 1
            /\ UNCHANGED <<pc, start>>
    /\ UNCHANGED <<scan, bar_loc, midpoints, calib_bars_y, calib_bars_x,
                   reported, gridVars, fieldVars>>

\* trace_x_calib_bars: one iteration of the walk back (217-218) and, at
\* the trailing edge, the rest of the outer iteration (219-221).
WalkXStep ==
    /\ pc = "walk_x"
    /\ Len(midpoints) < MaxMidpoints
    /\ IF ~IDReadable(scan, <<cur, calib_bars_y[1]>>, "x")
       THEN /\ pc' = "IndexError:217"
            /\ UNCHANGED <<cur, midpoints>>
       ELSE IF ~TrailingEdge(scan, <<cur, calib_bars_y[1]>>, "x")
       THEN /\ cur' = cur - 1
            /\ UNCHANGED <<pc, midpoints>>
       ELSE LET x_start == start
                x_end == cur
            IN  /\ midpoints' = Append(midpoints, IntHalf(x_start + x_end))
                /\ cur' = x_end + 1
                /\ pc' = "trace_x"
    /\ UNCHANGED <<scan, bar_loc, start, calib_bars_y, calib_bars_x,
                   reported, gridVars, fieldVars>>

\* trace_x_calib_bars returns (225).
TraceXReturn ==
    /\ pc = "trace_x"
    /\ cur >= Width(scan) - 1
    /\ calib_bars_x' = midpoints
    /\ pc' = "grid"
    /\ UNCHANGED <<scan, bar_loc, cur, start, midpoints, calib_bars_y,
                   reported, gridVars, fieldVars>>

\* The marks calibrate draws over the bars it found (293-296).
CalibMarks(loc, bars) ==
    {Rectangle(loc - TRACE_X_WIDTH * 3, bars[i] + 1,
               loc + TRACE_X_WIDTH * 3, bars[i] - 1) : i \in 1..Len(bars)}

\* x_grid of calibrate (306-311): round(calib_bars_x[1] + i * bubble_dist)
\* with bubble_dist = (last - first) / (len - 1), for len > 1.
XGrid(bars_x, bars_y) ==
    LET n == Len(bars_y)
        span == bars_y[n] - bars_y[1]
    IN  List([i \in 1..GRID_COLUMNS |->
                 Round(bars_x[2] * (n - 1) + (i - 1) * span, n - 1)])

\* calibrate lines 293-313: mark the bars, report a wrong count, build the
\* grid.
CalibrateGrid ==
    /\ pc = "grid"
    /\ scan' = [scan EXCEPT !.marks = @ \cup CalibMarks(bar_loc, calib_bars_y)]
    /\ reported' = (Len(calib_bars_y) # NUM_CALIB_BARS)
    /\ IF Len(calib_bars_y) - 1 = 0
       THEN /\ pc' = "ZeroDivisionError:306"
            /\ UNCHANGED gridVars
       ELSE IF Len(calib_bars_x) < 2
       THEN /\ pc' = "IndexError:310"
            /\ UNCHANGED gridVars
       ELSE /\ pc' = "calibrated"
            /\ x_grid' = XGrid(calib_bars_x, calib_bars_y)
            /\ y_grid' = calib_bars_y
    /\ UNCHANGED <<bar_loc, cur, start, midpoints, calib_bars_y,
                   calib_bars_x, fieldVars>>

(***************************************************************************)
(* read_bubble and draw_bubble.                                            *)
(***************************************************************************)
half_side_x(img) == IntFrac(BUBBLE_RADIUS_X, 10000, Width(img))
half_side_y(img) == IntFrac(BUBBLE_RADIUS_Y, 10000, Height(img))

\* The rectangle of pixels read_bubble reads around (xpix, ypix).
Window(img, xpix, ypix) ==
    <<xpix - half_side_x(img), ypix - half_side_y(img),
      xpix + half_side_x(img), ypix + half_side_y(img)>>

\* The number of pixels of a window: len(intensities).
WindowCount(img) == (2 * half_side_x(img) + 1) * (2 * half_side_y(img) + 1)

\* Whether every getpixel of read_bubble(img, xpix, ypix) returns.
BubbleReadable(img, xpix, ypix) ==
    LET w == Window(img, xpix, ypix)
    IN  /\ Readable(img, w[1], w[2])
        /\ Readable(img, w[3], w[4])

Intersects(r, w) == w[1] <= r[3] /\ r[1] <= w[3] /\ w[2] <= r[4] /\ r[2] <= w[4]

\* The image restricted to what can show inside window w (the same pixels
\* there; nothing is dropped when the window wraps around an edge).
Crop(img, w) ==
    IF w[1] < 0 \/ w[2] < 0 THEN img
    ELSE [img EXCEPT !.ink = {r \in @ : Intersects(r, w)},
                     !.marks = {m \in @ : Intersects(m, w)}]

\* read_bubble times the window's pixel count: the sum of the darkness of
\* every pixel of the window.
read_bubble(img, xpix, ypix) ==
    LET w == Window(img, xpix, ypix)
        near == Crop(img, w)
        nx == 2 * half_side_x(img) + 1
    IN  SumSeq([k \in 1..WindowCount(img) |->
                   darkness(near, w[1] + ((k - 1) % nx),
                            w[2] + ((k - 1) \div nx))])

\* draw_bubble(img, x_grid, y_grid, x, y): the four filled rectangles
\* (x and y are 0-based grid indices).
draw_bubble(img, xg, yg, x, y) ==
    LET cx == xg[x + 1]
        cy == yg[y + 1]
        hx == half_side_x(img)
        hy == half_side_y(img)
    IN  {Rectangle(cx - hx, cy + hy, cx + hx, cy + hy + 2),
         Rectangle(cx - hx, cy - hy, cx + hx, cy - hy - 2),
         Rectangle(cx + hx, cy - hy, cx + hx + 2, cy + hy),
         Rectangle(cx - hx, cy + hy, cx - hx - 2, cy - hy)}

Annotate(img, xg, yg, x, y) ==
    [img EXCEPT !.marks = @ \cup draw_bubble(img, xg, yg, x, y)]

(***************************************************************************)
(* The decision on a list of samples (bubble_intensities).                 *)
(*                                                                         *)
(* With rest = bub_sort[:-1], n = len(rest), S = sum(rest) and             *)
(* Q = sum of squares of rest:  mean(rest) = S / n  and                    *)
(* std(rest) = sqrt(n*Q - S*S) / n  (numpy's population std).  num_std is  *)
(* kept as the pair (num, var) standing for num / sqrt(var):               *)
(*                                                                         *)
(* When the samples of rest are all equal (var = 0) the float64 result     *)
(* depends on whether numpy's mean of n copies of a value x is x itself:   *)
(* for n = 4 it always is (x+x, 3x rounded, then exactly 4x), so std is 0  *)
(* and num_std is inf (winner above the rest) or nan (winner equal to      *)
(* them); for n = 3 and n = 35 the mean is x for some values of x and one  *)
(* ulp off for others, and then std is that tiny difference d: num_std is  *)
(* huge when the winner is above the rest, 0 / |d| = 0 in get_form_num     *)
(* and d / |d| = +1 or -1 in get_uniqueid when all samples are equal.      *)
(***************************************************************************)
SeqMax(s) == Max({s[i] : i \in 1..Len(s)})

\* bubble_intensities.index(max(bubble_intensities)): 0-based, the first.
IndexOfMax(s) ==
    LET m == SeqMax(s)
    IN  Min({i \in 1..Len(s) : s[i] = m}) - 1

\* bub_sort[:-1] as a sequence: every sample but one copy of the maximum
\* (sums over it do not depend on the order).
Rest(s) ==
    LET c == IndexOfMax(s) + 1
    IN  List([i \in 1..(Len(s) - 1) |-> IF i < c THEN s[i] ELSE s[i + 1]])

RestVar(s) ==
    LET r == Rest(s)
        S == SumSeq(r)
        Q == SumSeq([i \in 1..Len(r) |-> r[i] * r[i]])
    IN  Len(r) * Q - S * S

\* (bub_sort[-1] - mean(bub_sort[:-1])) / std(bub_sort[:-1])   (395, 426)
NumStd(s) ==
    [num |-> Len(Rest(s)) * SeqMax(s) - SumSeq(Rest(s)), var |-> RestVar(s),
     n |-> Len(Rest(s))]

\* (bub_sort[-1] - bub_sort[-2]) / std(bub_sort[:-1])          (446)
NumStdTop2(s) ==
    [num |-> Len(Rest(s)) * (SeqMax(s) - SeqMax(Rest(s))), var |-> RestVar(s),
     n |-> Len(Rest(s))]

\* The values "num_std < tol" can take as float64 compares (tol is 1 or 3):
\* False for inf, for a huge quotient and for nan; with all samples equal
\* and n other than 4, False (nan, +1 against 1) or True (0 or -1).
Less(ns, tol) ==
    IF ns.var # 0 THEN {ns.num * ns.num < tol * tol * ns.var}
    ELSE IF ns.num > 0 \/ ns.n = 4 THEN {FALSE}
    ELSE {TRUE, FALSE}

\* str(n) for 0 <= n <= 99, as a sequence of characters.
Digits == <<"0", "1", "2", "3", "4", "5", "6", "7", "8", "9">>
Letters == <<"A", "B", "C", "D", "E", "F", "G", "H", "I", "J", "K", "L", "M",
             "N", "O", "P", "Q", "R", "S", "T", "U", "V", "W", "X", "Y", "Z">>
Str(n) ==
    IF n < 10 THEN <<Digits[n + 1]>>
    ELSE <<Digits[(n \div 10) + 1], Digits[(n % 10) + 1]>>

\* ord("A"), ord("0") and chr over the characters the program builds.
ORD_A == 65
ORD_0 == 48
Chr(n) ==
    IF n \in ORD_0..(ORD_0 + 9) THEN Digits[n - ORD_0 + 1]
    ELSE Letters[n - ORD_A + 1]

\* The character get_uniqueid appends for a choice that is not blank
\* (403-408).
UniqueIdChar(choice) ==
    IF choice > 25 THEN Chr(choice - 26 + ORD_0) ELSE Chr(choice + ORD_A)

\* UniqueIdBlank with the fault of "or" for "and" between the probe and the
\* floor.
UniqueIdBlankEither(below, s, probe, count) ==
    \/ below
    \/ probe < UNIQUEID_WRITING_THRESHOLD * count
    \/ SeqMax(s) < FILLED_THRESHOLD_UNIQUEID * count

\* The test of get_uniqueid (398-401) on the samples and the probe read in
\* the row above the bubbles; below is num_std < UNIQUEID_TOLERANCE.
UniqueIdBlank(below, s, probe, count) ==
    \/ below
    \/ /\ probe < UNIQUEID_WRITING_THRESHOLD * count
       /\ SeqMax(s) < FILLED_THRESHOLD_UNIQUEID * count

\* Grade5NoSelection with the fault of a floor test the wrong way round.
Grade5NoSelectionDark(below, s, count) ==
    below \/ SeqMax(s) > FILLED_THRESHOLD * count

\* The test of grade_5choice (430); below is num_std < TOLERANCE.
Grade5NoSelection(below, s, count) ==
    below \/ SeqMax(s) < FILLED_THRESHOLD * count

\* The test of get_form_num (448); below is num_std < TOLERANCE.
FormNoSelection(below, s, count) == below

\* str.strip() on a sequence of characters.
RECURSIVE LStrip(_)
LStrip(s) == IF s # <<>> /\ Head(s) = " " THEN LStrip(Tail(s)) ELSE s
RECURSIVE RStrip(_)
RStrip(s) ==
    IF s # <<>> /\ s[Len(s)] = " " THEN RStrip(SubSeq(s, 1, Len(s) - 1)) ELSE s
Strip(s) == LStrip(RStrip(s))

(***************************************************************************)
(* read_scan after calibrate (465-488): get_uniqueid, one action per       *)
(* character; get_form_num; grade_5choice, one action per question; the    *)
(* print and the save.  `last` holds the locals of the latest decision.    *)
(***************************************************************************)
Decision(what, x, y, s, probe, result) ==
    [what |-> what, x |-> x, y |-> y, bubble_intensities |-> s,
     probe |-> probe, result |-> result]

\* Whether grid cell (x, y) (0-based) exists and its window can be read.
CellReadable(img, xg, yg, x, y) ==
    /\ x < Len(xg)
    /\ y < Len(yg)
    /\ BubbleReadable(img, xg[x + 1], yg[y + 1])

Sample(img, xg, yg, x, y) == read_bubble(img, xg[x + 1], yg[y + 1])

\* get_uniqueid: one iteration of "for char_num in range(8)".
UniqueIdStep ==
    /\ pc = "uniqueid"
    /\ char_num < UNIQUEID_LEN
    /\ LET x == UNIQUEID_X + char_num
           ok == \A y \in 0..(UNIQUEID_CHOICES - 1) :
                    CellReadable(scan, x_grid, y_grid, x, UNIQUEID_Y + y)
       IN  IF ~ok
           THEN /\ pc' = "IndexError:388"
                /\ UNCHANGED <<scan, char_num, uniqueid, last>>
           ELSE
           LET bubble_intensities ==
                   List([k \in 1..UNIQUEID_CHOICES |->
                       Sample(scan, x_grid, y_grid, x, UNIQUEID_Y + k - 1)])
               choice == IndexOfMax(bubble_intensities)
               probe == Sample(scan, x_grid, y_grid, x, UNIQUEID_Y - 1)
           IN  \E below \in Less(NumStd(bubble_intensities),
                                 UNIQUEID_TOLERANCE) :
               LET blank == UniqueIdBlank(below, bubble_intensities, probe,
                                          WindowCount(scan))
                   c == IF blank THEN " " ELSE UniqueIdChar(choice)
               IN
               /\ uniqueid' = Append(uniqueid, c)
               /\ scan' = IF blank THEN scan
                          ELSE Annotate(scan, x_grid, y_grid, x,
                                        UNIQUEID_Y + choice)
               /\ last' = Decision("uniqueid", x, UNIQUEID_Y,
                                   bubble_intensities, probe, <<c>>)
               /\ char_num' = char_num + 1
               /\ pc' = pc
    /\ UNCHANGED <<calVars, gridVars, num_questions, column, row, form,
                   answers_list, printed, saved_as>>

\* get_uniqueid returns (412); read_scan joins the characters and replaces
\* an identifier of length 0 by "blank" and a random number (465-467).
UniqueIdReturn ==
    /\ pc = "uniqueid"
    /\ char_num = UNIQUEID_LEN
    /\ IF Len(uniqueid) = 0
       THEN \E r \in 0..RANDINT_MAX :
               uniqueid' = <<"b", "l", "a", "n", "k">> \o Str(r)
       ELSE uniqueid' = uniqueid
    /\ pc' = "form"
    /\ UNCHANGED <<scan, calVars, gridVars, num_questions, char_num, column,
                   row, form, answers_list, printed, saved_as, last>>

\* get_form_num (437-452), and the start of the question loops (471-472).
FormNum ==
    /\ pc = "form"
    /\ LET ok == \A k \in 0..3 :
                    CellReadable(scan, x_grid, y_grid, FORM_X + 2 * k, FORM_Y)
       IN  IF ~ok
           THEN /\ pc' = "IndexError:441"
                /\ UNCHANGED <<scan, form, last>>
           ELSE
           LET bubble_intensities ==
                   List([k \in 1..4 |->
                       Sample(scan, x_grid, y_grid, FORM_X + 2 * (k - 1),
                              FORM_Y)])
               choice == IndexOfMax(bubble_intensities)
           IN  \E below \in Less(NumStdTop2(bubble_intensities), TOLERANCE) :
               LET none == FormNoSelection(below, bubble_intensities,
                                           WindowCount(scan))
                   result == IF none THEN <<".">> ELSE Str((choice % 2) + 1)
               IN
               /\ form' = result
               /\ scan' = IF none THEN scan
                          ELSE Annotate(scan, x_grid, y_grid,
                                        FORM_X + choice * 2, FORM_Y)
               /\ last' = Decision("form", FORM_X, FORM_Y,
                                   bubble_intensities, 0, result)
               /\ pc' = "questions"
    /\ column' = 0
    /\ row' = 0
    /\ UNCHANGED <<calVars, gridVars, num_questions, char_num, uniqueid,
                   answers_list, printed, saved_as>>

\* range(((num_questions - 1) // Q_PER_COL) + 1)                    (472)
NumColumns(n) == ((n - 1) \div Q_PER_COL) + 1

\* MaxRow with the fault of reading every column in full.
MaxRowWhole(col, n) == Q_PER_COL

\* max_row of a column (473-476).
MaxRow(col, n) ==
    IF (col + 1) * Q_PER_COL <= n THEN Q_PER_COL ELSE n % Q_PER_COL

\* grade_5choice(scan_fix, x_grid, y_grid, 2 + 9*column, 23 + 2*row) and
\* the append of its str (479-480): one iteration of "for row".
GradeQuestion ==
    /\ pc = "questions"
    /\ column < NumColumns(num_questions)
    /\ row < MaxRow(column, num_questions)
    /\ LET startx == 2 + 9 * column
           starty == 23 + 2 * row
           ok == \A k \in 0..4 :
                    CellReadable(scan, x_grid, y_grid, startx + k, starty)
       IN  IF ~ok
           THEN /\ pc' = "IndexError:420"
                /\ UNCHANGED <<scan, answers_list, last, column, row>>
           ELSE
           LET bubble_intensities ==
                   List([k \in 1..5 |->
                       Sample(scan, x_grid, y_grid, startx + k - 1, starty)])
               choice == IndexOfMax(bubble_intensities)
           IN  \E below \in Less(NumStd(bubble_intensities), TOLERANCE) :
               LET none == Grade5NoSelection(below, bubble_intensities,
                                             WindowCount(scan))
                   result == IF none THEN <<".">> ELSE Str(choice)
               IN
               /\ answers_list' = Append(answers_list, result[1])
               /\ scan' = IF none THEN scan
                          ELSE Annotate(scan, x_grid, y_grid,
                                        startx + choice, starty)
               /\ last' = Decision("question", startx, starty,
                                   bubble_intensities, 0, result)
               /\ IF row + 1 < MaxRow(column, num_questions)
                  THEN row' = row + 1 /\ column' = column
                  ELSE row' = 0 /\ column' = column + 1
               /\ pc' = pc
    /\ UNCHANGED <<calVars, gridVars, num_questions, char_num, uniqueid,
                   form, printed, saved_as>>

\* The print of the decoded record and the save of the annotated scan
\* (482-488).
PrintAndSave ==
    /\ pc = "questions"
    /\ column >= NumColumns(num_questions)
    /\ printed' = [uniqueid |-> uniqueid, form |-> form,
                   q_answers |-> answers_list]
    /\ saved_as' = Strip(uniqueid) \o <<".", "j", "p", "g">>
    /\ pc' = "done"
    /\ UNCHANGED <<scan, calVars, gridVars, num_questions, char_num, column,
                   row, uniqueid, form, answers_list, last>>

(***************************************************************************)
(* The scans calibrate is run on: a straight sheet of SheetWidth by        *)
(* SheetHeight pixels with n calibration bars printed down the left edge,  *)
(* of which the first `crisp` are black and the others faded (dark enough  *)
(* for find_bars, too faint for an edge), k marks along the row of the     *)
(* first bar, and possibly a smudge over the bar column.  The proportions  *)
(* are those of the constants: a bar about twice BAR_HALFWIDTH_REL wide,   *)
(* the bars BAR_SPACING apart.                                             *)
(***************************************************************************)
SheetWidth == 260
SheetHeight == 340
BarLeft == 6
BarWidth == 5
BarTop == 11
\* The bars are BAR_SPACING of the height apart.
BarPitch == Round(BAR_SPACING * SheetHeight, 1000)
BarHeight == 3
TopLeft == 30
TopPitch == 15
TopWidth == 5
SmudgeTop == 100
SmudgeHeight == 8
\* The darkness of black ink (that of any pixel whose red channel is 0) and
\* of a faded bar.
Black == MARK_COLOR
Faded == 50
\* Bar counts tried: NUM_CALIB_BARS - 1 .. NUM_CALIB_BARS + ExtraBars.
ExtraBars == 1
\* Numbers of marks tried along the row of the first bar: 1..MaxTopMarks.
MaxTopMarks == 2

LeftBars(n, crisp) ==
    {<<BarLeft, BarTop + i * BarPitch, BarLeft + BarWidth - 1,
       BarTop + i * BarPitch + BarHeight - 1,
       IF i < crisp THEN Black ELSE Faded>> : i \in 0..(n - 1)}

TopMarks(k) ==
    {<<TopLeft + j * TopPitch, BarTop - 4, TopLeft + j * TopPitch + TopWidth - 1,
       BarTop + BarHeight + 3, Black>> : j \in 0..(k - 1)}

Smudge(kind) ==
    CASE kind = "none" -> {}
      [] kind = "block" ->
            {<<BarLeft, SmudgeTop, BarLeft + BarWidth - 1,
               SmudgeTop + SmudgeHeight - 1, Black>>}
      [] kind = "wide" ->
            {<<SmudgeTop, BarTop - 4, SmudgeTop + SmudgeHeight + 3,
               BarTop + BarHeight + 3, Black>>}
      [] kind = "bottom" ->
            {<<BarLeft, SheetHeight - 4, BarLeft + BarWidth - 1,
               SheetHeight - 1, Black>>}

BarCounts == (NUM_CALIB_BARS - 1)..(NUM_CALIB_BARS + ExtraBars)

Sheet(inked) ==
    [size |-> <<SheetWidth, SheetHeight>>, paper |-> 0, marks |-> {},
     ink |-> inked]

AllCrisp == NUM_CALIB_BARS + ExtraBars

Sheets ==
    {Sheet({})} \cup
    {Sheet(LeftBars(n, crisp) \cup TopMarks(MaxTopMarks)) :
        n \in BarCounts, crisp \in {0, 1, 2, AllCrisp}} \cup
    {Sheet(LeftBars(NUM_CALIB_BARS, AllCrisp) \cup TopMarks(k)
           \cup Smudge(kind)) :
        k \in 0..MaxTopMarks, kind \in {"none", "block", "wide", "bottom"}}

NothingPrinted == [uniqueid |-> <<>>, form |-> <<>>, q_answers |-> <<>>]
NoDecision == Decision("none", 0, 0, <<>>, 0, <<>>)

FieldsIdle ==
    /\ num_questions = 0 /\ char_num = 0 /\ column = 0 /\ row = 0
    /\ uniqueid = <<>> /\ form = <<>> /\ answers_list = <<>>
    /\ printed = NothingPrinted /\ saved_as = <<>> /\ last = NoDecision

InitCalib ==
    /\ pc = "find_bars"
    /\ scan \in Sheets
    /\ bar_loc = 0 /\ cur = 1 /\ start = 0 /\ midpoints = <<>>
    /\ calib_bars_y = <<>> /\ calib_bars_x = <<>>
    /\ reported = FALSE
    /\ x_grid = <<>> /\ y_grid = <<>>
    /\ FieldsIdle

NextCalib ==
    \/ FindBarsLight
    \/ FindBarsDark
    \/ TraceYStep
    \/ WalkYStep
    \/ TraceYReturn
    \/ TraceXStep
    \/ WalkXStep
    \/ TraceXReturn
    \/ CalibrateGrid

SpecCalib == InitCalib /\ [][NextCalib]_vars

(***************************************************************************)
(* The state calibrate leaves on a clean sheet with n crisp bars: the bar  *)
(* midpoints it traces (the first dark row or column of each mark plus     *)
(* one), the grid it builds and the marks it draws.                        *)
(***************************************************************************)
GridBarsY(n) == List([i \in 1..n |-> BarTop + (i - 1) * BarPitch])
GridBarsX == <<BarLeft + 1, TopLeft + 1, TopLeft + TopPitch + 1>>
GridBarLoc == BarLeft + 2

CleanSheet(n) == Sheet(LeftBars(n, AllCrisp) \cup TopMarks(2))

Calibrated(n, pencil) ==
    [CleanSheet(n) EXCEPT
        !.ink = @ \cup pencil,
        !.marks = CalibMarks(GridBarLoc, GridBarsY(n))]

\* The pixel coordinates of grid cell (gx, gy) (0-based) of a full sheet.
CellX(gx) == XGrid(GridBarsX, GridBarsY(NUM_CALIB_BARS))[gx + 1]
CellY(gy) == GridBarsY(NUM_CALIB_BARS)[gy + 1]
HalfX == IntFrac(BUBBLE_RADIUS_X, 10000, SheetWidth)
HalfY == IntFrac(BUBBLE_RADIUS_Y, 10000, SheetHeight)

\* A bubble of darkness d at grid cell (gx, gy).
Bubble(gx, gy, d) ==
    <<CellX(gx) - HalfX, CellY(gy) - HalfY,
      CellX(gx) + HalfX, CellY(gy) + HalfY, d>>

\* A panel of printed, empty bubbles over the grid cells (gx0..gx1) by
\* (gy0..gy1): darkness d + step * ((column + row) % 4).
Panel(gx0, gy0, gx1, gy1, d, step) ==
    <<CellX(gx0) - HalfX, CellY(gy0) - HalfY,
      CellX(gx1) + BarPitch - HalfX - 1, CellY(gy1) + BarPitch - HalfY - 1,
      d, step, BarPitch>>

InitGrid(n) ==
    /\ bar_loc = GridBarLoc
    /\ cur = SheetWidth - 1
    /\ start = TopLeft + TopPitch - 1
    /\ midpoints = GridBarsX
    /\ calib_bars_y = GridBarsY(n)
    /\ calib_bars_x = GridBarsX
    /\ reported = (n # NUM_CALIB_BARS)
    /\ x_grid = XGrid(GridBarsX, GridBarsY(n))
    /\ y_grid = GridBarsY(n)

(***************************************************************************)
(* SpecScan: read_scan from the return of calibrate, for the               *)
(* num_questions up to MaxQuestions, on a blank sheet, on an answered      *)
(* sheet, and on a sheet of which calibrate found only two bars.           *)
(***************************************************************************)
MaxQuestions == 101
Pencil == 90
PrintDark == 4
PrintStep == 1
\* The answered sheet answers questions 0..AnsweredQuestions-1.
AnsweredQuestions == 80

\* The bubbles of the whole form: grid columns 2..43, rows 7..61.
Printed == {Panel(2, UNIQUEID_Y, GRID_COLUMNS - 1, NUM_CALIB_BARS - 2,
                  PrintDark, PrintStep)}

\* The identifier pencilled on the answered sheet: "AZQ09  F".
AnsweredId == <<0, 25, 16, 26, 35, -1, -1, 5>>

AnsweredPencil ==
    {Bubble(UNIQUEID_X + k - 1, UNIQUEID_Y + AnsweredId[k], Pencil) :
        k \in {j \in 1..UNIQUEID_LEN : AnsweredId[j] >= 0}}
    \cup {Bubble(FORM_X + 2, FORM_Y, Pencil)}
    \cup {Bubble(2 + 9 * (q \div Q_PER_COL) + (q % 6),
                 23 + 2 * (q % Q_PER_COL), Pencil) :
            q \in {k \in 0..(AnsweredQuestions - 1) : k % 6 < 5}}

InitFields(nq) ==
    /\ num_questions = nq
    /\ char_num = 0 /\ column = 0 /\ row = 0
    /\ uniqueid = <<>> /\ form = <<>> /\ answers_list = <<>>
    /\ printed = NothingPrinted /\ saved_as = <<>> /\ last = NoDecision

\* The question counts tried on the answered sheet: those around the end of
\* each column of Q_PER_COL questions.
AnsweredCounts ==
    {nq \in 0..MaxQuestions : nq % Q_PER_COL \in {0, 1, Q_PER_COL - 1}}

InitScan ==
    /\ pc = "uniqueid"
    /\ \/ /\ scan = Calibrated(NUM_CALIB_BARS, Printed)
          /\ InitGrid(NUM_CALIB_BARS)
          /\ \E nq \in 0..MaxQuestions : InitFields(nq)
       \/ /\ scan = Calibrated(NUM_CALIB_BARS, Printed \cup AnsweredPencil)
          /\ InitGrid(NUM_CALIB_BARS)
          /\ \E nq \in AnsweredCounts : InitFields(nq)
       \/ /\ scan = Calibrated(2, Printed)
          /\ InitGrid(2)
          /\ \E nq \in 0..MaxQuestions : InitFields(nq)

NextFields ==
    \/ UniqueIdStep
    \/ UniqueIdReturn
    \/ FormNum
    \/ GradeQuestion
    \/ PrintAndSave

SpecScan == InitScan /\ [][NextFields]_vars

(***************************************************************************)
(* SpecDecide: the three decisions on sheets whose other fields are left   *)
(* white.  A white identifier column reads 36 samples of 0 and a probe of  *)
(* 0, which get_uniqueid decodes as a blank without drawing anything, so   *)
(* the states below are those read_scan is in when it comes to the field   *)
(* under test.                                                             *)
(***************************************************************************)
\* The mean darkness (hundredths) of the bubbles of a question or form group.
Levels == {4, 5, FILLED_THRESHOLD - 1, FILLED_THRESHOLD, 50}

\* The group of the example: samples 0.04, 0.05, 0.06, 0.07, 0.90.
ExampleSamples == <<4, 5, 6, 7, 90>>

\* Bubbles of darkness v[1], v[2], ... at cells (x0, y), (x0 + dx, y), ...
Group(x0, dx, y, v) ==
    {Bubble(x0 + dx * (k - 1), y, v[k]) : k \in 1..Len(v)}

\* An identifier column: the first `rows` bubbles of the column covered by a
\* band of darkness shade, bubble `choice` filled with darkness fill, and
\* handwriting of darkness written in the box above the column.
Column(x, rows, shade, choice, fill, written) ==
    {<<CellX(x) - HalfX, CellY(UNIQUEID_Y) - HalfY,
       CellX(x) + HalfX, CellY(UNIQUEID_Y + rows - 1) + HalfY, shade>> :
        k \in {j \in {rows} : j > 0}}
    \cup {Bubble(x, UNIQUEID_Y + choice, fill)}
    \cup {Bubble(x, UNIQUEID_Y - 1, written)}

\* The form bubbles of a sheet of form 1: the first one filled.
FormOne == Group(FORM_X, 2, FORM_Y, <<90, PrintDark, PrintDark, PrintDark>>)

\* The decision get_uniqueid records for a white column x.
WhiteColumn(x) ==
    Decision("uniqueid", x, UNIQUEID_Y, List([k \in 1..UNIQUEID_CHOICES |-> 0]),
             0, <<" ">>)

\* The identifier after n white columns.
Blanks(n) == List([k \in 1..n |-> " "])

\* read_scan about to call get_form_num on a sheet with a white identifier.
AtForm(nq) ==
    /\ pc = "form"
    /\ num_questions = nq
    /\ char_num = UNIQUEID_LEN /\ column = 0 /\ row = 0
    /\ uniqueid = Blanks(UNIQUEID_LEN) /\ form = <<>> /\ answers_list = <<>>
    /\ printed = NothingPrinted /\ saved_as = <<>>
    /\ last = WhiteColumn(UNIQUEID_X + UNIQUEID_LEN - 1)

\* get_uniqueid about to read identifier column UNIQUEID_X + n after n white
\* columns.
AtColumn(n) ==
    /\ pc = "uniqueid"
    /\ num_questions = 0
    /\ char_num = n /\ column = 0 /\ row = 0
    /\ uniqueid = Blanks(n) /\ form = <<>> /\ answers_list = <<>>
    /\ printed = NothingPrinted /\ saved_as = <<>>
    /\ last = IF n = 0 THEN NoDecision ELSE WhiteColumn(UNIQUEID_X + n - 1)

\* The bubbles tried as the darkest of an identifier column: the first and
\* the last letter, the first and the last digit.
Choices == {0, 25, 26, UNIQUEID_CHOICES - 1}

InitDecide ==
    /\ InitGrid(NUM_CALIB_BARS)
    /\ \/ \E v \in [1..5 -> Levels] \cup {ExampleSamples} :
            /\ scan = Calibrated(NUM_CALIB_BARS,
                                 Group(2, 1, 23, v) \cup FormOne)
            /\ AtForm(1)
       \/ \E v \in [1..4 -> Levels] :
            /\ scan = Calibrated(NUM_CALIB_BARS, Group(FORM_X, 2, FORM_Y, v))
            /\ AtForm(0)
       \/ \E rows \in {0, 1, 18, 24, UNIQUEID_CHOICES}, shade \in {5, 50},
             choice \in Choices,
             fill \in {0, FILLED_THRESHOLD_UNIQUEID - 1,
                       FILLED_THRESHOLD_UNIQUEID, 90},
             written \in {0, UNIQUEID_WRITING_THRESHOLD} :
            /\ scan = Calibrated(NUM_CALIB_BARS,
                                 Column(UNIQUEID_X + UNIQUEID_LEN - 1, rows,
                                        shade, choice, fill, written)
                                 \cup FormOne)
            /\ AtColumn(UNIQUEID_LEN - 1)
       \/ \E rows \in {0, 24}, choice \in Choices,
             fill \in {0, 90}, written \in {0, UNIQUEID_WRITING_THRESHOLD} :
            /\ scan = Calibrated(NUM_CALIB_BARS,
                                 Column(UNIQUEID_X, rows, 50, choice, fill,
                                        written) \cup FormOne)
            /\ AtColumn(0)

SpecDecide == InitDecide /\ [][NextFields]_vars

(***************************************************************************)
(* The properties.  A decision is described by `last`: the samples it read *)
(* (sums over the window), the probe and the result.  The separation of    *)
(* the samples is NumStd (NumStdTop2 for the form number), the pair        *)
(* (num, var) standing for num / sqrt(var).                                *)
(***************************************************************************)
\* separation >= tol: a finite separation of at least tol, or an infinite
\* one (var = 0 and the winner above the others).
AtLeast(ns, tol) ==
    \/ ns.var > 0 /\ ns.num * ns.num >= tol * tol * ns.var
    \/ ns.var = 0 /\ ns.num > 0

\* separation < tol: a finite separation below tol.
Below(ns, tol) == ns.var > 0 /\ ns.num * ns.num < tol * tol * ns.var

\* The samples of bubbles of mean darkness v[1], v[2], ...
SamplesOf(v) == List([k \in 1..Len(v) |-> v[k] * WindowCount(scan)])

\* The characters of an identifier, by index of the winner.
Alphabet == Letters \o Digits

\* C1: for every 5-candidate question group, grade_5choice returns the
\* 0-based index of the darkest sample if and only if the separation
\* (max - mean of rest) / stddev of rest is >= TOLERANCE and max >=
\* FILLED_THRESHOLD, and returns '.' in every other case.
C1_IndexIffSeparatedAndFilled ==
    last.what = "question" =>
        LET s == last.bubble_intensities
            filled == /\ AtLeast(NumStd(s), TOLERANCE)
                      /\ SeqMax(s) >= FILLED_THRESHOLD * WindowCount(scan)
        IN  last.result = IF filled THEN Str(IndexOfMax(s)) ELSE <<".">>

\* C2 (as amended): for the question group with samples 0.04, 0.05, 0.06,
\* 0.07, 0.90 in candidate order, grade_5choice returns index 4, the 0-based
\* index of the sample 0.90.
C2_ExampleReturnsIndex4 ==
    (last.what = "question" /\ last.bubble_intensities = SamplesOf(ExampleSamples))
        => last.result = <<"4">>

\* C2, witness: the example group has been graded and its code printed.
C2_ExampleGraded ==
    /\ pc = "done"
    /\ last.what = "question"
    /\ last.bubble_intensities = SamplesOf(ExampleSamples)
    /\ Len(printed.q_answers) = 1

\* C2 (as stated): for the question group with samples 0.04, 0.05, 0.06,
\* 0.07, 0.90 the decision engine returns index 3.
C2_ExampleReturnsIndex3 ==
    (last.what = "question" /\ last.bubble_intensities = SamplesOf(ExampleSamples))
        => last.result = <<"3">>

\* C3: in every decision variant, when the standard deviation of the
\* non-winning samples is zero the decision is 'no selection' ('.', or a
\* blank for an identifier character).
C3_ZeroDeviationNoSelection ==
    (last.what \in {"question", "uniqueid", "form"}
     /\ RestVar(last.bubble_intensities) = 0)
        => last.result \in {<<".">>, <<" ">>}

\* C4: if all 8 identifier characters decode to blank, the identifier in
\* the decoded record and in the audit file name is a placeholder
\* 'blank<number>', not the all-blank string.
C4_AllBlankIdentifierReplaced ==
    pc = "done" =>
        /\ printed.uniqueid # Blanks(UNIQUEID_LEN)
        /\ saved_as # <<".", "j", "p", "g">>

\* C5: for every number of bars traced along the primary axis that differs
\* from NUM_CALIB_BARS (0 and 1 included), calibrate does not abort: it
\* reports the mismatch and returns a grid built from the bars found.
C5_MismatchReportedNotFatal ==
    Len(calib_bars_y) # NUM_CALIB_BARS =>
        /\ pc \notin {"IndexError:289", "ZeroDivisionError:306"}
        /\ pc = "calibrated" => reported /\ y_grid = calib_bars_y

\* The grid cells the next decision of read_scan samples.
NextCells ==
    IF pc = "uniqueid" /\ char_num < UNIQUEID_LEN
    THEN {<<UNIQUEID_X + char_num, y>> :
             y \in (UNIQUEID_Y - 1)..(UNIQUEID_Y + UNIQUEID_CHOICES - 1)}
    ELSE IF pc = "form"
    THEN {<<FORM_X + 2 * k, FORM_Y>> : k \in 0..3}
    ELSE IF /\ pc = "questions"
            /\ column < NumColumns(num_questions)
            /\ row < MaxRow(column, num_questions)
    THEN {<<2 + 9 * column + k, 23 + 2 * row>> : k \in 0..4}
    ELSE {}

\* C6: no pixel that read_bubble samples for a decision was written by the
\* marking of the calibration bars or by the annotation of an earlier
\* decision.
C6_DecisionReadsUnmarkedPixels ==
    \A c \in NextCells :
        CellReadable(scan, x_grid, y_grid, c[1], c[2]) =>
            \A m \in scan.marks :
                ~Intersects(m, Window(scan, x_grid[c[1] + 1], y_grid[c[2] + 1]))

\* C7: the decoded record holds exactly num_questions question codes, in
\* question order (question k read from column k div 20, row k mod 20, that
\* is from grid cell (2 + 9 * column, 23 + 2 * row)), each a digit 0-4 or
\* '.'.
C7_QuestionCodesInOrder ==
    /\ Len(answers_list) <= num_questions
    /\ \A k \in 1..Len(answers_list) :
           answers_list[k] \in {"0", "1", "2", "3", "4", "."}
    /\ last.what = "question" =>
           LET k == Len(answers_list) - 1
           IN  /\ last.x = 2 + 9 * (k \div Q_PER_COL)
               /\ last.y = 23 + 2 * (k % Q_PER_COL)
               /\ last.result = <<answers_list[k + 1]>>
    /\ pc = "done" =>
           /\ printed.q_answers = answers_list
           /\ Len(printed.q_answers) = num_questions

\* C7, witness: the record of a sheet of five full columns has been
\* printed, with answered and unanswered questions.
C7_FullFormPrinted ==
    /\ pc = "done"
    /\ num_questions = 5 * Q_PER_COL
    /\ printed.q_answers[2] = "1"
    /\ printed.q_answers[6] = "."

C9_FormBelowFloorNoSelection ==
    (/\ last.what = "form"
     /\ RestVar(last.bubble_intensities) > 0
     /\ SeqMax(last.bubble_intensities) < FILLED_THRESHOLD * WindowCount(scan))
        => last.result = <<".">>

\* C10: in trace_y_calib_bars and trace_x_calib_bars the position at which
\* scanning resumes after the jump and the walk back is strictly greater
\* than the position of the leading edge.
C10_ResumesPastLeadingEdge ==
    [][(pc \in {"walk_y", "walk_x"} /\ pc' \in {"trace_y", "trace_x"})
            => cur' > start]_vars

====
